---- MODULE Spec2Model ----
(***************************************************************************)
(* ShipMaster Pro: the resilient client primitives (circuit breaker, rate  *)
(* limiter, retry with backoff) and the tag-driven automation rules        *)
(* (condition evaluation, exclusive tag collections, execution limits).    *)
(* Every subsystem has its own specification over the shared variables;    *)
(* a subsystem's actions leave the other subsystems' variables unchanged.  *)
(***************************************************************************)
EXTENDS Integers, Sequences, FiniteSets, TLC

(***************************************************************************)
(* Bounds of the model.                                                    *)
(***************************************************************************)
\* The wall clock (Date.now(), in ms) runs from 0 to MaxTime in steps of TickMs.
MaxTime == 160000
TickMs == 20000
\* new CircuitBreaker(threshold, timeout): the two constructor arguments.
Threshold == 2
Timeout == 60000
\* Concurrent execute() calls on one breaker, and the cap on failureCount.
MaxCalls == 3
MaxFailures == 4
\* integration.rateLimits.requestsPerMinute, the clients made for one integration,
\* the makeRequest calls that may overlap, and the admissions one run records.
RequestsPerMinute == 2
MaxClients == 2
MaxRequests == 2
MaxAdmits == 6
\* retryWithBackoff(fn, maxRetries, baseDelay): the largest maxRetries passed.
MaxRetriesArg == 3
\* The rule clock (minutes of local time) runs to MaxClock in steps of ClockStep;
\* MaxRuns bounds the times the rule engine runs a rule's actions.
MaxClock == 2160
ClockStep == 720
MaxRuns == 3
\* The events the rule engine may be processing at the same time.
MaxHandlers == 2

VARIABLES
  now,        \* Date.now()
  breaker,    \* the CircuitBreaker object: state, failureCount, lastFailureTime
  calls,      \* per execute() call: "idle" or "running" (awaiting fn())
  trial,      \* the running calls that moved the breaker OPEN -> HALF_OPEN
  streak,     \* history: call-throughs that failed since the last success
  cbLast,     \* history: what the last breaker step did
  rateLimiter,\* per client: rateLimiter.get('requests'), the recorded timestamps
  requests,   \* per makeRequest call: idle, or suspended in checkRateLimit
  admitted,   \* history: the times at which checkRateLimit returned, in order
  retry,      \* one retryWithBackoff call: its position, i, and what fn did so far
  clock,      \* new Date() as the rule model reads it, in minutes
  orders,     \* the orders table: per order its tags, totals and automation log
  rule,       \* one automation_rules row: definition, limits, stats, history
  allRecords, \* history: every ExecutionRecord written for the rule, in order
  runs,       \* history: how often the rule's actions were run
  lastTrigger,\* history: what the last trigger of the rule did
  evalRef,    \* history: one earlier evaluateConditions call, kept for comparison
  evalLast,   \* history: the latest evaluateConditions call
  handlers,   \* per event being processed: its position and its loaded copy of the rule
  tagImpl,    \* the TaggingService implementation that is deployed
  tagCalls,   \* how many applyTags/removeTags calls were made
  tagLast,    \* history: the latest applyTags/removeTags call and its outcome
  manager,    \* the RobustSupabaseManager: config.maxRetries, service client or none
  managerBreaker, \* its circuitBreakers.query
  metrics,    \* its metrics counters
  exec,       \* one executeWithResilience call: its position and what it did
  execCalls,  \* how many executeWithResilience calls were made
  integrationRow, \* the stored api_integrations row: status, sync_settings, stats
  liveClient, \* this.integration of the long-lived client, as loaded at its creation
  intCalls,   \* how many makeRequest calls were made
  failStreak, \* history: the makeRequest calls that failed since the last success
  intLast     \* history: the latest makeRequest and the row it found

cbVars == <<breaker, calls, trial, streak, cbLast>>
rlVars == <<rateLimiter, requests, admitted>>
retryVars == <<retry>>
ruleVars == <<clock, rule, allRecords, runs, lastTrigger, evalRef, evalLast, handlers>>
tagVars == <<tagImpl, tagCalls, tagLast>>
execVars == <<manager, managerBreaker, metrics, exec, execCalls>>
intVars == <<integrationRow, liveClient, intCalls, failStreak, intLast>>

\* null, as a value no clock reading equals.
NULL == -1

\* JavaScript's ToNumber on lastFailureTime: null counts as 0 in a subtraction.
ToNum(v) == IF v = NULL THEN 0 ELSE v

CallIds == 1..MaxCalls

(***************************************************************************)
(* CircuitBreaker                                                          *)
(***************************************************************************)
NewCircuitBreaker(threshold, timeout) ==
  [failureCount |-> 0, threshold |-> threshold, timeout |-> timeout,
   state |-> "CLOSED", lastFailureTime |-> NULL]

\* A success that resets the count and leaves the state as it is.
onSuccessKeepsState(cb) ==
  [cb EXCEPT !.failureCount = 0]

onSuccess(cb) ==
  [cb EXCEPT !.failureCount = 0, !.state = "CLOSED"]

\* A breaker that opens one failure late (> for >=).
onFailureLate(cb, t) ==
  LET n == cb.failureCount + 1
  IN [cb EXCEPT !.failureCount = n, !.lastFailureTime = t,
                !.state = IF n > cb.threshold THEN "OPEN" ELSE cb.state]

onFailure(cb, t) ==
  LET n == cb.failureCount + 1
  IN [cb EXCEPT !.failureCount = n, !.lastFailureTime = t,
                !.state = IF n >= cb.threshold THEN "OPEN" ELSE cb.state]

\* The guard at the head of execute(): TRUE when the call is thrown out.
executeRejects(cb, t) ==
  cb.state = "OPEN" /\ ~(t - ToNum(cb.lastFailureTime) > cb.timeout)

\* A rejection thrown inside the try block, so that the catch counts it.
executeThrowsCounted(cb, t) == onFailure(cb, t)

\* The breaker as execute() leaves it when it throws the call out: the throw
\* comes before the try block, neither onSuccess nor onFailure runs.
executeThrows(cb, t) == cb

\* The breaker as execute() leaves it before fn() is invoked.
executeEnter(cb, t) ==
  IF cb.state = "OPEN" /\ t - ToNum(cb.lastFailureTime) > cb.timeout
  THEN [cb EXCEPT !.state = "HALF_OPEN"]
  ELSE cb

CbNone == [kind |-> "none", call |-> 0, at |-> 0, trial |-> FALSE,
           streak |-> 0, within |-> FALSE, was |-> "CLOSED"]

InitCB ==
  /\ breaker = NewCircuitBreaker(Threshold, Timeout)
  /\ calls = [c \in CallIds |-> "idle"]
  /\ trial = {}
  /\ streak = 0
  /\ cbLast = CbNone

\* execute(fn) up to its await: rejected, or fn() invoked.
ExecuteCall(c) ==
  /\ calls[c] = "idle"
  /\ LET info == [call |-> c, at |-> now, streak |-> streak,
                  within |-> (now - ToNum(breaker.lastFailureTime) <= breaker.timeout),
                  was |-> breaker.state]
     IN IF executeRejects(breaker, now)
        THEN /\ cbLast' = info @@ [kind |-> "reject", trial |-> FALSE]
             /\ breaker' = executeThrows(breaker, now)
             /\ UNCHANGED <<calls, trial>>
        ELSE /\ breaker' = executeEnter(breaker, now)
             /\ calls' = [calls EXCEPT ![c] = "running"]
             /\ trial' = IF breaker.state = "OPEN" THEN trial \cup {c} ELSE trial
             /\ cbLast' = info @@ [kind |-> "start", trial |-> breaker.state = "OPEN"]
  /\ UNCHANGED streak

\* fn() resolved: onSuccess(), the result is returned.
ExecuteSucceeds(c) ==
  /\ calls[c] = "running"
  /\ breaker' = onSuccess(breaker)
  /\ calls' = [calls EXCEPT ![c] = "idle"]
  /\ trial' = trial \ {c}
  /\ streak' = 0
  /\ cbLast' = [kind |-> "ok", call |-> c, at |-> now, trial |-> c \in trial,
                streak |-> streak, within |-> FALSE, was |-> breaker.state]

\* fn() rejected: onFailure(), the error is rethrown.
ExecuteFails(c) ==
  /\ calls[c] = "running"
  /\ breaker.failureCount < MaxFailures
  /\ breaker' = onFailure(breaker, now)
  /\ calls' = [calls EXCEPT ![c] = "idle"]
  /\ trial' = trial \ {c}
  /\ streak' = streak + 1
  /\ cbLast' = [kind |-> "fail", call |-> c, at |-> now, trial |-> c \in trial,
                streak |-> streak, within |-> FALSE, was |-> breaker.state]

Tick ==
  /\ now + TickMs <= MaxTime
  /\ now' = now + TickMs

TickCB == Tick /\ UNCHANGED cbVars


(***************************************************************************)
(* BaseApiClient.checkRateLimit                                            *)
(***************************************************************************)
windowMs == 60000

ClientIds == 1..MaxClients
ReqIds == 1..MaxRequests

\* requests.filter(time => now - time < windowMs)
RECURSIVE recentRequests(_, _)
recentRequests(reqs, t) ==
  IF reqs = <<>> THEN <<>>
  ELSE IF t - Head(reqs) < windowMs
       THEN <<Head(reqs)>> \o recentRequests(Tail(reqs), t)
       ELSE recentRequests(Tail(reqs), t)

\* windowMs - (now - recentRequests[0])
waitTime(recent, t) == windowMs - (t - recent[1])

ReqIdle == [st |-> "idle", client |-> 0, at |-> 0, wake |-> 0, recent |-> <<>>]

InitRL ==
  /\ rateLimiter = [k \in ClientIds |-> <<>>]
  /\ requests = [r \in ReqIds |-> ReqIdle]
  /\ admitted = <<>>

InFlight == Cardinality({r \in ReqIds : requests[r].st = "waiting"})

\* checkRateLimit() up to its await, on client k (a client of the one integration:
\* a long-lived one, or the one createClient() has just made for this operation).
CheckRateLimit(r, k) ==
  /\ requests[r].st = "idle"
  /\ Len(admitted) + InFlight < MaxAdmits
  /\ LET recent == recentRequests(rateLimiter[k], now)
     IN IF Len(recent) >= RequestsPerMinute
        THEN /\ requests' = [requests EXCEPT ![r] =
                  [st |-> "waiting", client |-> k, at |-> now,
                   wake |-> now + waitTime(recent, now), recent |-> recent]]
             /\ UNCHANGED <<rateLimiter, admitted>>
        ELSE /\ rateLimiter' = [rateLimiter EXCEPT ![k] = Append(recent, now)]
             /\ admitted' = Append(admitted, now)
             /\ UNCHANGED requests

\* The setTimeout of checkRateLimit() fires: the captured list gets the captured
\* now and replaces the client's list; the request goes to the transport. Timers
\* fire in the order of their expiry; those due at the same time in any order.
CheckRateLimitResume(r) ==
  /\ requests[r].st = "waiting"
  /\ now >= requests[r].wake
  /\ \A q \in ReqIds : requests[q].st = "waiting" => requests[q].wake >= requests[r].wake
  /\ rateLimiter' = [rateLimiter EXCEPT ![requests[r].client] =
                       Append(requests[r].recent, requests[r].at)]
  /\ admitted' = Append(admitted, now)
  /\ requests' = [requests EXCEPT ![r] = ReqIdle]

TickRL == Tick /\ UNCHANGED rlVars

(***************************************************************************)
(* retryWithBackoff                                                        *)
(***************************************************************************)
\* What one await fn() can do: resolve with a value or reject with an error.
FnResults == {[ok |-> TRUE, v |-> "r1"], [ok |-> TRUE, v |-> "r2"],
              [ok |-> FALSE, v |-> "e1"], [ok |-> FALSE, v |-> "e2"]}
UNDEFINED == [ok |-> TRUE, v |-> "undefined"]

\* The baseDelay arguments and the values of Math.random() * 1000 tried.
BaseDelays == {1, 1000}
Jitters == {0, 999}

RECURSIVE Pow2(_)
Pow2(n) == IF n = 0 THEN 1 ELSE 2 * Pow2(n - 1)

\* A backoff that does not grow with the attempt (the factor 2^i left out).
backoffDelayFlat(baseDelay, i, jitter) == baseDelay + jitter

\* baseDelay * Math.pow(2, i) + Math.random() * 1000
backoffDelay(baseDelay, i, jitter) == baseDelay * Pow2(i) + jitter

\* A loop that takes i === maxRetries for the last attempt.
isLastAttemptOff(i, maxRetries) == i = maxRetries

\* i === maxRetries - 1
isLastAttempt(i, maxRetries) == i = maxRetries - 1

RetryIdle == [pc |-> "idle", i |-> 0, maxRetries |-> 0, baseDelay |-> 0,
              attempts |-> <<>>, delays |-> <<>>, result |-> UNDEFINED]

InitRetry == retry = RetryIdle

\* The call, up to the first test of i < maxRetries.
RetryCall(m, b) ==
  /\ retry.pc = "idle"
  /\ retry' = [RetryIdle EXCEPT !.maxRetries = m, !.baseDelay = b,
                                !.pc = IF 0 < m THEN "calling" ELSE "returned"]

\* await fn() settles with res: return it, throw it, or sleep before the next round.
RetryAttempt(res, jitter) ==
  /\ retry.pc = "calling"
  /\ LET tried == [retry EXCEPT !.attempts = Append(@, res)]
     IN retry' =
          IF res.ok THEN [tried EXCEPT !.pc = "returned", !.result = res]
          ELSE IF isLastAttempt(retry.i, retry.maxRetries)
               THEN [tried EXCEPT !.pc = "threw", !.result = res]
               ELSE [tried EXCEPT !.pc = "sleeping",
                       !.delays = Append(@, backoffDelay(retry.baseDelay, retry.i, jitter))]

\* The backoff timer fires: i++, and the loop test.
RetryWake ==
  /\ retry.pc = "sleeping"
  /\ retry' = [retry EXCEPT !.i = @ + 1,
                 !.pc = IF retry.i + 1 < retry.maxRetries THEN "calling" ELSE "returned",
                 !.result = UNDEFINED]

\* The caller has taken the outcome; the next call may begin.
RetryDone ==
  /\ retry.pc \in {"returned", "threw"}
  /\ retry' = RetryIdle

(***************************************************************************)
(* RobustSupabaseManager.executeWithResilience                             *)
(***************************************************************************)
\* classifyError: the error types in the order their patterns are tried.
PatternOrder == <<"AUTH_EXPIRED", "RATE_LIMITED", "TEMPORARY_NETWORK", "SERVICE_DOWN",
                  "DATA_VALIDATION", "NOT_FOUND", "PERMISSION_DENIED">>

\* An error, by the patterns its message or code matches.
ErrorOf(patterns) == [patterns |-> patterns]

\* The errors an operation fails with: one per pattern, one that matches two
\* patterns ("validation timeout"), and one that matches none.
Errors ==
  {ErrorOf({"AUTH_EXPIRED"}), ErrorOf({"RATE_LIMITED"}), ErrorOf({"TEMPORARY_NETWORK"}),
   ErrorOf({"DATA_VALIDATION"}), ErrorOf({"NOT_FOUND"}), ErrorOf({"PERMISSION_DENIED"}),
   ErrorOf({"TEMPORARY_NETWORK", "DATA_VALIDATION"}), ErrorOf({})}

\* The first type whose pattern matches wins.
classifyError(error) ==
  IF error.patterns = {} THEN "UNKNOWN_ERROR"
  ELSE LET i == CHOOSE j \in DOMAIN PatternOrder :
                  /\ PatternOrder[j] \in error.patterns
                  /\ \A k \in DOMAIN PatternOrder :
                       PatternOrder[k] \in error.patterns => j <= k
       IN PatternOrder[i]

\* The errors the manager itself raises; none of their messages matches a pattern:
\* 'Circuit breaker is OPEN - Service temporarily unavailable', and the
\* TypeError of reading result.data off undefined.
CircuitOpenError == ErrorOf({})
TypeErrorOfUndefined == ErrorOf({})

\* The types autoFixStrategies has an entry for.
AutoFixTypes == {"AUTH_EXPIRED", "RATE_LIMITED", "TEMPORARY_NETWORK"}

\* The RATE_LIMITED strategy reads retry-after off its first argument, which
\* the caller fills with the client: no such header, so the default.
DefaultRetryAfter == 60
rateLimitWait(firstArgRetryAfter) ==
  IF firstArgRetryAfter # 0 THEN firstArgRetryAfter ELSE DefaultRetryAfter

\* What await operation(client) settles with: a result, nothing, or an error.
OpResults ==
  {[ok |-> TRUE, undef |-> FALSE, err |-> ErrorOf({}), retryAfter |-> 0],
   [ok |-> TRUE, undef |-> TRUE, err |-> ErrorOf({}), retryAfter |-> 0]}
  \cup {[ok |-> FALSE, undef |-> FALSE, err |-> e, retryAfter |-> 0] : e \in Errors}
  \cup {[ok |-> FALSE, undef |-> FALSE, err |-> ErrorOf({"RATE_LIMITED"}), retryAfter |-> 5]}

\* The manager as constructed: config.maxRetries (0 when the caller's config
\* spreads a 0 over the default) and whether a service-role key is set.
ManagerConfigs ==
  {[maxRetries |-> 3, serviceClient |-> TRUE],
   [maxRetries |-> 2, serviceClient |-> FALSE],
   [maxRetries |-> 0, serviceClient |-> TRUE]}

\* The executeWithResilience calls of one run, and the step of the clock while
\* they run (longer than the breaker's timeout).
MaxExecCalls == 3
ExecTickMs == 80000

NoResult == [success |-> FALSE, type |-> "", autoFixed |-> FALSE]

\* The types the retry policy is not to retry.
NonRetryable == {"DATA_VALIDATION", "NOT_FOUND", "PERMISSION_DENIED"}

\* One executeWithResilience call: where it stands, the retry index, and what it
\* did so far: operation invocations, refreshes, backoff sleeps, the seconds the
\* last rate-limit fix waited, whether the operation failed with a non-retryable
\* error, and whether the one AUTH_EXPIRED fix is used up (the refresh failed, or
\* the operation failed again after it).
ExecIdle == [pc |-> "idle", i |-> 0, useServiceRole |-> FALSE,
             opCalls |-> 0, refreshes |-> 0, sleeps |-> 0, waited |-> 0,
             fatal |-> FALSE, authSpent |-> FALSE,
             error |-> ErrorOf({}), retryAfter |-> 0, result |-> NoResult]

NoMetrics == [totalRequests |-> 0, successfulRequests |-> 0, failedRequests |-> 0,
              autoFixedRequests |-> 0]

InitExec(configs) ==
  /\ manager \in configs
  /\ managerBreaker = NewCircuitBreaker(Threshold, Timeout)
  /\ metrics = NoMetrics
  /\ exec = ExecIdle
  /\ execCalls = 0

\* The outer catch: failedRequests++, and the call resolves with success false.
resolveFailed(ex, error) ==
  [ex EXCEPT !.pc = "resolved",
             !.result = [success |-> FALSE, type |-> classifyError(error),
                         autoFixed |-> FALSE]]

\* retryWithBackoff returned to execute(), execute() to the outer try: onSuccess,
\* successfulRequests++, then the result object is built off result.data.
ExecReturns(ex, undef, autoFixed) ==
  /\ managerBreaker' = onSuccess(managerBreaker)
  /\ IF undef
     THEN /\ metrics' = [metrics EXCEPT !.successfulRequests = @ + 1,
                                         !.failedRequests = @ + 1]
          /\ exec' = resolveFailed(ex, TypeErrorOfUndefined)
     ELSE /\ metrics' = [metrics EXCEPT !.successfulRequests = @ + 1]
          /\ exec' = [ex EXCEPT !.pc = "resolved",
                        !.result = [success |-> TRUE, type |-> "",
                                    autoFixed |-> autoFixed]]

\* The attempt's function threw error into the catch of retryWithBackoff: rethrow
\* on the last round (onFailure, the outer catch), else sleep.
ExecAttemptFailed(ex, mt, error) ==
  IF isLastAttempt(ex.i, manager.maxRetries)
  THEN /\ managerBreaker' = onFailure(managerBreaker, now)
       /\ metrics' = [mt EXCEPT !.failedRequests = @ + 1]
       /\ exec' = resolveFailed(ex, error)
  ELSE /\ exec' = [ex EXCEPT !.pc = "sleep", !.sleeps = @ + 1]
       /\ metrics' = mt
       /\ UNCHANGED managerBreaker

\* executeWithResilience up to its first await.
ExecCall(useServiceRole) ==
  /\ exec.pc = "idle"
  /\ execCalls < MaxExecCalls
  /\ execCalls' = execCalls + 1
  /\ LET ex == [ExecIdle EXCEPT !.useServiceRole = useServiceRole]
         counted == [metrics EXCEPT !.totalRequests = @ + 1]
     IN IF useServiceRole /\ ~manager.serviceClient
        THEN /\ exec' = [ex EXCEPT !.pc = "rejected"]
             /\ metrics' = counted
             /\ UNCHANGED managerBreaker
        ELSE IF executeRejects(managerBreaker, now)
        THEN /\ exec' = resolveFailed(ex, CircuitOpenError)
             /\ metrics' = [counted EXCEPT !.failedRequests = @ + 1]
             /\ UNCHANGED managerBreaker
        ELSE IF ~(0 < manager.maxRetries)
        THEN /\ managerBreaker' = onSuccess(executeEnter(managerBreaker, now))
             /\ metrics' = [counted EXCEPT !.successfulRequests = @ + 1,
                                           !.failedRequests = @ + 1]
             /\ exec' = resolveFailed(ex, TypeErrorOfUndefined)
        ELSE /\ managerBreaker' = executeEnter(managerBreaker, now)
             /\ metrics' = counted
             /\ exec' = [ex EXCEPT !.pc = "op"]
  /\ UNCHANGED manager

\* await operation(client) of one attempt settles with res.
ExecOperation(res) ==
  /\ exec.pc = "op"
  /\ LET ex == [exec EXCEPT !.opCalls = @ + 1,
                  !.fatal = @ \/ (~res.ok /\ classifyError(res.err) \in NonRetryable)]
     IN IF res.ok
        THEN ExecReturns(ex, res.undef, FALSE)
        ELSE IF classifyError(res.err) \in AutoFixTypes
        THEN /\ exec' = [ex EXCEPT !.pc = "fix", !.error = res.err,
                                   !.retryAfter = res.retryAfter]
             /\ UNCHANGED <<managerBreaker, metrics>>
        ELSE ExecAttemptFailed(ex, metrics, res.err)
  /\ UNCHANGED <<manager, execCalls>>

\* The auto-fix strategy of the error's type settles; refreshOk is what
\* auth.refreshSession() did.
ExecAutoFix(refreshOk) ==
  /\ exec.pc = "fix"
  /\ LET type == classifyError(exec.error)
         fixed == CASE type = "AUTH_EXPIRED" -> refreshOk
                    [] type = "RATE_LIMITED" -> TRUE
                    [] OTHER -> FALSE
         ex == [exec EXCEPT
                  !.refreshes = IF type = "AUTH_EXPIRED" THEN @ + 1 ELSE @,
                  !.authSpent = @ \/ (type = "AUTH_EXPIRED" /\ ~refreshOk),
                  !.waited = IF type = "RATE_LIMITED" THEN rateLimitWait(0) ELSE @]
     IN IF fixed
        THEN /\ exec' = [ex EXCEPT !.pc = "opAfterFix"]
             /\ metrics' = [metrics EXCEPT !.autoFixedRequests = @ + 1]
             /\ UNCHANGED managerBreaker
        ELSE ExecAttemptFailed([ex EXCEPT !.error = ErrorOf({}), !.retryAfter = 0],
                               metrics, exec.error)
  /\ UNCHANGED <<manager, execCalls>>

\* await operation(client) after a fix settles with res.
ExecRetryOperation(res) ==
  /\ exec.pc = "opAfterFix"
  /\ LET ex == [exec EXCEPT !.opCalls = @ + 1, !.error = ErrorOf({}), !.retryAfter = 0,
                  !.authSpent = @ \/ (~res.ok /\ classifyError(exec.error) = "AUTH_EXPIRED")]
     IN IF res.ok
        THEN ExecReturns(ex, FALSE, TRUE)
        ELSE ExecAttemptFailed(ex, metrics, res.err)
  /\ UNCHANGED <<manager, execCalls>>

\* The backoff timer fires: i++, and the next attempt.
ExecWake ==
  /\ exec.pc = "sleep"
  /\ exec' = [exec EXCEPT !.i = @ + 1, !.pc = "op"]
  /\ UNCHANGED <<manager, managerBreaker, metrics, execCalls>>

\* The caller has the outcome; the next call may begin.
ExecDone ==
  /\ exec.pc \in {"resolved", "rejected"}
  /\ exec' = ExecIdle
  /\ UNCHANGED <<manager, managerBreaker, metrics, execCalls>>

\* Time passes, at any point of a call or between calls.
TickExec ==
  /\ now + ExecTickMs <= MaxTime
  /\ now' = now + ExecTickMs
  /\ UNCHANGED <<manager, managerBreaker, metrics, exec, execCalls>>

(***************************************************************************)
(* BaseApiClient.makeRequest: updateStats, handleError and the stored      *)
(* api_integrations row                                                    *)
(***************************************************************************)
\* handleError disables the sync at this many consecutive errors.
ErrorCeiling == 10
\* The makeRequest calls of one run.
MaxIntCalls == 12

\* transformToDb: the model fields it copies, and the column of each.
ColumnOf ==
  [userId |-> "user_id", name |-> "name", type |-> "type", config |-> "config",
   status |-> "status", syncSettings |-> "sync_settings",
   fieldMapping |-> "field_mapping", webhooks |-> "webhooks",
   rateLimits |-> "rate_limits", stats |-> "stats"]

\* transformToDb(updates): the columns of the keys it knows; every other key of
\* the update object is dropped.
transformToDb(updates) ==
  LET known == DOMAIN updates \cap DOMAIN ColumnOf
  IN [c \in {ColumnOf[k] : k \in known} |->
        updates[CHOOSE k \in known : ColumnOf[k] = c]]

\* ApiIntegrationModel.findByIdAndUpdate: the row after .update(updateData).
findByIdAndUpdate(row, updates) ==
  LET updateData == transformToDb(updates)
  IN [c \in DOMAIN row |-> IF c \in DOMAIN updateData THEN updateData[c] ELSE row[c]]

\* transformFromDb, the fields the client reads.
transformFromDb(row) ==
  [status |-> row.status, syncSettings |-> row.sync_settings, stats |-> row.stats]

\* The api_integrations row as created: the column defaults of schema.sql, sync on.
NewIntegrationRow ==
  [status |-> [connected |-> FALSE, errorCount |-> 0, consecutiveErrors |-> 0,
               lastError |-> ""],
   sync_settings |-> [enabled |-> TRUE],
   stats |-> [totalRequests |-> 0, successfulRequests |-> 0, failedRequests |-> 0]]

\* The update object updateStats builds.
statsUpdate(success) ==
  IF success
  THEN "$inc" :> ("stats.totalRequests" :> 1 @@ "stats.successfulRequests" :> 1)
       @@ "$set" :> ("status.consecutiveErrors" :> 0 @@ "status.connected" :> 1)
  ELSE "$inc" :> ("stats.totalRequests" :> 1 @@ "stats.failedRequests" :> 1
                  @@ "status.consecutiveErrors" :> 1 @@ "status.errorCount" :> 1)
       @@ "$set" :> ("stats.avgResponseTime" :> 0)

\* The two update objects handleError builds.
errorUpdate(errorMessage) ==
  "status.lastError" :> errorMessage @@ "status.connected" :> "false"

disableUpdate == "syncSettings.enabled" :> "false"

\* handleError's test on the integration object the client was built with.
tooManyErrors(integration) == integration.status.consecutiveErrors >= ErrorCeiling

\* updateStats(success, ...), then on failure handleError(error): the row after.
afterRequest(row, clientIntegration, success) ==
  LET counted == findByIdAndUpdate(row, statsUpdate(success))
      marked == findByIdAndUpdate(counted, errorUpdate("request failed"))
  IN IF success THEN counted
     ELSE IF tooManyErrors(clientIntegration)
          THEN findByIdAndUpdate(marked, disableUpdate)
          ELSE marked

NoRequest == [kind |-> "none", fresh |-> FALSE, before |-> NewIntegrationRow]

InitInt ==
  /\ integrationRow = NewIntegrationRow
  /\ liveClient = transformFromDb(NewIntegrationRow)
  /\ intCalls = 0
  /\ failStreak = 0
  /\ intLast = NoRequest

\* One makeRequest, from the axios call to its return or rethrow, through the
\* long-lived client or through a client made for the call (fresh).
MakeRequest(fresh, success) ==
  /\ intCalls < MaxIntCalls
  /\ intCalls' = intCalls + 1
  /\ LET clientIntegration == IF fresh THEN transformFromDb(integrationRow)
                              ELSE liveClient
     IN integrationRow' = afterRequest(integrationRow, clientIntegration, success)
  /\ failStreak' = IF success THEN 0 ELSE failStreak + 1
  /\ intLast' = [kind |-> IF success THEN "ok" ELSE "failed", fresh |-> fresh,
                 before |-> integrationRow]
  /\ UNCHANGED liveClient

(***************************************************************************)
(* Tags, exclusive collections, orders and automation rules                *)
(***************************************************************************)
Tags == {"urgent", "high-priority", "express", "standard", "vip"}

\* TagCollection.findExclusive(): the system collections of initializeSystemTags.
ExclusiveCollections ==
  {[name |-> "Priority Level", tags |-> {"urgent", "high-priority"}],
   [name |-> "Shipping Method", tags |-> {"express", "standard"}]}

OrderIds == {"o1", "o2"}

\* The orders table as a run may find it: no order carries two tags of one
\* exclusive collection.
OrderTables ==
  {[o \in OrderIds |-> IF o = "o1"
      THEN [tags |-> {"vip", "express"}, total |-> 150, totalWeight |-> 5,
            itemCount |-> 2, country |-> "US", residential |-> TRUE, shipping |-> FALSE, automation |-> <<>>]
      ELSE [tags |-> {"vip"}, total |-> 50, totalWeight |-> 5,
            itemCount |-> 2, country |-> "US", residential |-> TRUE, shipping |-> FALSE, automation |-> <<>>]],
   [o \in OrderIds |-> IF o = "o1"
      THEN [tags |-> {"urgent"}, total |-> 150, totalWeight |-> 5,
            itemCount |-> 2, country |-> "CA", residential |-> FALSE, shipping |-> FALSE, automation |-> <<>>]
      ELSE [tags |-> {}, total |-> 50, totalWeight |-> 5,
            itemCount |-> 2, country |-> "US", residential |-> TRUE, shipping |-> FALSE, automation |-> <<>>]]}

\* A min/max pair; 0 stands for a bound that is not set (falsy in the source).
Range(lo, hi) == [min |-> lo, max |-> hi]
NoRange == Range(0, 0)
\* destination: residentialSet is FALSE when dest.residential is undefined.
NoDestination == [countries |-> {}, residentialSet |-> FALSE, residential |-> FALSE]
\* trigger.conditions.tags in the two shapes the two evaluators read:
\* hasAll/hasAny/hasNone (the rule model) and include/exclude/operator (the
\* tagging service).
TagConds(all, any, none) ==
  [hasAll |-> all, hasAny |-> any, hasNone |-> none,
   include |-> all \cup any, exclude |-> none,
   operator |-> IF any = {} THEN "AND" ELSE "OR"]
NoTimeRange == [days |-> {}, hours |-> <<>>]
NoActions == [addTags |-> <<>>, removeTags |-> <<>>, shipping |-> FALSE,
              priority |-> "", emailTeam |-> FALSE]

RuleIds == {"R1", "R2", "R3", "R4", "R5", "R6"}

\* The automation_rules table: definition fields of the rules.
Rules ==
  [r \in RuleIds |->
    CASE r = "R1" ->  \* orders of VIP customers worth 100 or more get a shipping override
         [enabled |-> TRUE, priority |-> 3, event |-> "tag_applied",
          conditions |-> [orderValue |-> Range(100, 0), weight |-> NoRange,
                          itemCount |-> NoRange, destination |-> NoDestination,
                          tags |-> TagConds({"vip"}, {}, {}), timeRange |-> NoTimeRange],
          actions |-> [NoActions EXCEPT !.shipping = TRUE, !.emailTeam = TRUE]]
      [] r = "R2" ->  \* urgent orders not yet express are tagged express
         [enabled |-> TRUE, priority |-> 2, event |-> "tag_applied",
          conditions |-> [orderValue |-> NoRange, weight |-> Range(1, 10),
                          itemCount |-> NoRange, destination |-> NoDestination,
                          tags |-> TagConds({"urgent"}, {}, {"express"}),
                          timeRange |-> NoTimeRange],
          actions |-> [NoActions EXCEPT !.addTags = <<"express">>]]
      [] r = "R3" ->  \* a tag removed from a non-VIP order makes it urgent
         [enabled |-> TRUE, priority |-> 1, event |-> "tag_removed",
          conditions |-> [orderValue |-> NoRange, weight |-> NoRange,
                          itemCount |-> Range(0, 5), destination |-> NoDestination,
                          tags |-> TagConds({}, {}, {"vip"}), timeRange |-> NoTimeRange],
          actions |-> [NoActions EXCEPT !.priority = "urgent"]]
      [] r = "R4" ->  \* VIP orders to US homes, on Mondays between 09:00 and 17:00
         [enabled |-> TRUE, priority |-> 1, event |-> "order_created",
          conditions |-> [orderValue |-> NoRange, weight |-> NoRange,
                          itemCount |-> NoRange,
                          destination |-> [countries |-> {"US"}, residentialSet |-> TRUE,
                                          residential |-> TRUE],
                          tags |-> TagConds({}, {"vip"}, {}),
                          timeRange |-> [days |-> {"monday"}, hours |-> <<9, 17>>]],
          actions |-> [NoActions EXCEPT !.removeTags = <<"standard">>]]
      [] r = "R5" ->  \* high-priority orders are tagged express and the team is told
         [enabled |-> TRUE, priority |-> 0, event |-> "tag_applied",
          conditions |-> [orderValue |-> NoRange, weight |-> NoRange,
                          itemCount |-> NoRange, destination |-> NoDestination,
                          tags |-> TagConds({"high-priority"}, {}, {}),
                          timeRange |-> NoTimeRange],
          actions |-> [NoActions EXCEPT !.addTags = <<"express">>, !.emailTeam = TRUE]]
      [] r = "R6" ->  \* standard orders that are not urgent lose express; the team is told
         [enabled |-> TRUE, priority |-> 1, event |-> "tag_applied",
          conditions |-> [orderValue |-> NoRange, weight |-> NoRange,
                          itemCount |-> NoRange, destination |-> NoDestination,
                          tags |-> TagConds({"standard"}, {}, {"urgent"}),
                          timeRange |-> NoTimeRange],
          actions |-> [NoActions EXCEPT !.removeTags = <<"express">>, !.emailTeam = TRUE]]]

\* The rule clock counts minutes of local time from a Sunday, 00:00.
MinutesPerDay == 1440
dayNames == <<"sunday", "monday", "tuesday", "wednesday", "thursday", "friday", "saturday">>
\* dayNames[now.getDay()]
currentDay(t) == dayNames[((t \div MinutesPerDay) % 7) + 1]
\* now.getHours()
currentHour(t) == (t % MinutesPerDay) \div 60
\* today.setHours(0, 0, 0, 0)
midnight(t) == (t \div MinutesPerDay) * MinutesPerDay

\* conditions.X.min && v < min, conditions.X.max && v > max
outOfRange(range, v) ==
  \/ (range.min # 0 /\ v < range.min)
  \/ (range.max # 0 /\ v > range.max)

\* conditions.tags.hasAll?.length && !hasAll.every(...)
hasAllFails(tagConds, orderTags) ==
  tagConds.hasAll # {} /\ ~(\A t \in tagConds.hasAll : t \in orderTags)

\* Time conditions that fall back on office hours when the rule sets no hours.
timeRangeFailsDefault(timeRange, t) ==
  \/ (timeRange.days # {} /\ currentDay(t) \notin timeRange.days)
  \/ (LET hours == IF timeRange.hours = <<>> THEN <<9, 17>> ELSE timeRange.hours
      IN currentHour(t) < hours[1] \/ currentHour(t) >= hours[2])

\* The time conditions of evaluateConditions, at clock reading t.
timeRangeFails(timeRange, t) ==
  \/ (timeRange.days # {} /\ currentDay(t) \notin timeRange.days)
  \/ (timeRange.hours # <<>>
        /\ (currentHour(t) < timeRange.hours[1] \/ currentHour(t) >= timeRange.hours[2]))

\* evaluateConditions(order) of the rule model, run on rule definition r at clock t.
evaluateConditions(r, order, t) ==
  LET c == Rules[r].conditions
  IN ~ \/ outOfRange(c.orderValue, order.total)
       \/ outOfRange(c.weight, order.totalWeight)
       \/ outOfRange(c.itemCount, order.itemCount)
       \/ (c.destination.countries # {} /\ order.country \notin c.destination.countries)
       \/ (c.destination.residentialSet
             /\ order.residential # c.destination.residential)
       \/ hasAllFails(c.tags, order.tags)
       \/ (c.tags.hasAny # {} /\ ~(\E t2 \in c.tags.hasAny : t2 \in order.tags))
       \/ (c.tags.hasNone # {} /\ (\E t2 \in c.tags.hasNone : t2 \in order.tags))
       \/ timeRangeFails(c.timeRange, t)

\* evaluateTagConditions(order, conditions) of the tagging service.
evaluateTagConditions(orderTags, conditions) ==
  LET include == conditions.tags.include
      exclude == conditions.tags.exclude
  IN ~ \/ (include # {} /\ conditions.tags.operator = "AND"
             /\ ~(\A t \in include : t \in orderTags))
       \/ (include # {} /\ conditions.tags.operator # "AND"
             /\ ~(\E t \in include : t \in orderTags))
       \/ (exclude # {} /\ (\E t \in exclude : t \in orderTags))

(***************************************************************************)
(* AutomationRule instance methods: canExecute, recordExecution            *)
(***************************************************************************)
HistoryCap == 100

\* limits of a rule; 0 stands for a limit that is not set.
LimitConfigs ==
  {[maxExecutions |-> 0, maxPerDay |-> 0, cooldownMinutes |-> 0, maxPerOrder |-> 0],
   [maxExecutions |-> 0, maxPerDay |-> 1, cooldownMinutes |-> 0, maxPerOrder |-> 0],
   [maxExecutions |-> 2, maxPerDay |-> 0, cooldownMinutes |-> 0, maxPerOrder |-> 0],
   [maxExecutions |-> 0, maxPerDay |-> 0, cooldownMinutes |-> 1000, maxPerOrder |-> 0],
   [maxExecutions |-> 0, maxPerDay |-> 2, cooldownMinutes |-> 0, maxPerOrder |-> 1]}

\* history.filter(p).length, for the two filters of canExecute
RECURSIVE CountToday(_, _)
CountToday(history, today) ==
  IF history = <<>> THEN 0
  ELSE (IF Head(history).executedAt >= today /\ Head(history).success THEN 1 ELSE 0)
       + CountToday(Tail(history), today)

RECURSIVE CountOrder(_, _)
CountOrder(history, orderId) ==
  IF history = <<>> THEN 0
  ELSE (IF Head(history).orderId = orderId /\ Head(history).success THEN 1 ELSE 0)
       + CountOrder(Tail(history), orderId)

\* A daily limit that lets one execution too many through (> for >=).
dailyLimitReachedLate(rl, t) ==
  rl.limits.maxPerDay # 0
    /\ CountToday(rl.history, midnight(t)) > rl.limits.maxPerDay

\* todayExecutions >= this.limits.maxPerDay
dailyLimitReached(rl, t) ==
  rl.limits.maxPerDay # 0
    /\ CountToday(rl.history, midnight(t)) >= rl.limits.maxPerDay

\* canExecute(order) at clock reading t
canExecute(rl, orderId, t) ==
  /\ Rules[rl.def].enabled
  /\ ~(rl.limits.maxExecutions # 0
         /\ rl.stats.totalExecutions >= rl.limits.maxExecutions)
  /\ ~dailyLimitReached(rl, t)
  /\ ~(rl.limits.cooldownMinutes # 0 /\ rl.stats.lastExecuted # <<>>
         /\ t < rl.stats.lastExecuted[1] + rl.limits.cooldownMinutes)
  /\ ~(rl.limits.maxPerOrder # 0
         /\ CountOrder(rl.history, orderId) >= rl.limits.maxPerOrder)

\* A history that keeps the first 100 entries (slice(0, 100) for slice(-100)).
keepLastOff(s, n) == IF Len(s) <= n THEN s ELSE SubSeq(s, 1, n)

\* Array.prototype.slice(-n)
keepLast(s, n) == IF Len(s) <= n THEN s ELSE SubSeq(s, Len(s) - n + 1, Len(s))

ExecutionRecord(orderId, t, success, duration) ==
  [orderId |-> orderId, executedAt |-> t, success |-> success, duration |-> duration]

\* The row recordExecution() writes: newStats and newHistory.
recordExecution(rl, orderId, success, duration, t) ==
  [rl EXCEPT
     !.stats = [totalExecutions |-> rl.stats.totalExecutions + 1,
                successfulExecutions |->
                  rl.stats.successfulExecutions + (IF success THEN 1 ELSE 0),
                failedExecutions |->
                  rl.stats.failedExecutions + (IF success THEN 0 ELSE 1),
                lastExecuted |-> <<t>>,
                ordersAffected |-> rl.stats.ordersAffected + (IF success THEN 1 ELSE 0)],
     !.history = keepLast(Append(rl.history,
                                 ExecutionRecord(orderId, t, success, duration)),
                          HistoryCap)]

\* A history of n executions recorded the day before the run starts.
Prefilled(n) ==
  [i \in 1..n |-> ExecutionRecord("o2", -MinutesPerDay, TRUE, i)]

\* A history of n executions of the day before: one that succeeded for order o1,
\* then n - 1 that failed for order o2.
Aged(n) ==
  [i \in 1..n |-> ExecutionRecord(IF i = 1 THEN "o1" ELSE "o2", -MinutesPerDay, i = 1, i)]

Succeeded(history) == Cardinality({i \in DOMAIN history : history[i].success})

NewRule(def, limits, history) ==
  [def |-> def, limits |-> limits, history |-> history,
   stats |-> [totalExecutions |-> Len(history),
              successfulExecutions |-> Succeeded(history),
              failedExecutions |-> Len(history) - Succeeded(history),
              lastExecuted |-> IF history = <<>> THEN <<>> ELSE <<-MinutesPerDay>>,
              ordersAffected |-> Succeeded(history)]]

NoTrigger == [kind |-> "none", order |-> "o1", at |-> 0, success |-> FALSE,
              records |-> 0, failed |-> 0]
NoEval == [set |-> FALSE, order |-> "o1", at |-> 0, result |-> FALSE]

HandlerIds == 1..MaxHandlers
HandlerIdle == [pc |-> "idle", order |-> "o1", copy |-> <<>>]

\* The rule as loaded: any of the rule definitions, with any of the limits, new
\* or with a day-old history one entry short of the cap or at the cap, the
\* history being one that the rule's maxExecutions and maxPerOrder have let through.
RuleInits(defs, limitChoices) ==
  {rl \in {NewRule(def, limits, history) :
             def \in defs, limits \in limitChoices,
             history \in {<<>>, Prefilled(HistoryCap - 1), Aged(HistoryCap)}} :
     /\ rl.limits.maxExecutions # 0 => rl.stats.totalExecutions <= rl.limits.maxExecutions
     /\ rl.limits.maxPerOrder # 0 =>
          \A o \in OrderIds : CountOrder(rl.history, o) <= rl.limits.maxPerOrder}

NoLimits == CHOOSE l \in LimitConfigs :
  l.maxExecutions = 0 /\ l.maxPerDay = 0 /\ l.cooldownMinutes = 0 /\ l.maxPerOrder = 0

\* The orders table in which both orders meet the conditions of rule definition def.
TableFor(def) ==
  CHOOSE t \in OrderTables :
    IF def = "R3" THEN t["o1"].tags = {"urgent"} ELSE t["o1"].tags # {"urgent"}

InitRule(ruleChoices, orderChoices) ==
  /\ clock = 0
  /\ orders \in orderChoices
  /\ rule \in ruleChoices
  /\ allRecords = rule.history
  /\ runs = 0
  /\ lastTrigger = [NoTrigger EXCEPT !.kind = "none"]
  /\ evalRef = NoEval
  /\ evalLast = NoEval
  /\ handlers = [h \in HandlerIds |-> HandlerIdle]

\* A direct call of rule.evaluateConditions(order).
EvaluateConditions(o, keep) ==
  /\ evalLast' = [set |-> TRUE, order |-> o, at |-> clock,
                  result |-> evaluateConditions(rule.def, orders[o], clock)]
  /\ evalRef' = IF keep /\ ~evalRef.set THEN evalLast' ELSE evalRef
  /\ UNCHANGED <<clock, orders, rule, allRecords, runs, lastTrigger, handlers>>

\* The rule engine handles an event for order o: canExecute, evaluateConditions,
\* the actions (which succeed or fail), recordExecution (whose write succeeds or
\* throws).
Trigger(o, success, writeOk) ==
  /\ runs < MaxRuns
  /\ IF ~canExecute(rule, o, clock)
     THEN /\ lastTrigger' = [NoTrigger EXCEPT !.kind = "skipped", !.order = o, !.at = clock,
                               !.records = Len(rule.history),
                               !.failed = rule.stats.failedExecutions]
          /\ UNCHANGED <<rule, allRecords, runs, evalRef, evalLast>>
     ELSE /\ evalLast' = [set |-> TRUE, order |-> o, at |-> clock,
                          result |-> evaluateConditions(rule.def, orders[o], clock)]
          /\ UNCHANGED evalRef
          /\ IF ~evalLast'.result
             THEN /\ lastTrigger' = [NoTrigger EXCEPT !.kind = "nomatch", !.order = o,
                                                       !.at = clock]
                  /\ UNCHANGED <<rule, allRecords, runs>>
             ELSE /\ runs' = runs + 1
                  /\ IF writeOk
                     THEN /\ rule' = recordExecution(rule, o, success,
                                                     HistoryCap + Len(allRecords), clock)
                          /\ allRecords' = Append(allRecords,
                               ExecutionRecord(o, clock, success,
                                               HistoryCap + Len(allRecords)))
                          /\ lastTrigger' = [NoTrigger EXCEPT !.kind = "recorded",
                                               !.order = o, !.at = clock,
                                               !.success = success]
                     ELSE /\ lastTrigger' = [NoTrigger EXCEPT !.kind = "unrecorded",
                                               !.order = o, !.at = clock,
                                               !.success = success]
                          /\ UNCHANGED <<rule, allRecords>>
  /\ UNCHANGED <<clock, orders, handlers>>

ClockTick ==
  /\ clock + ClockStep <= MaxClock
  /\ clock' = clock + ClockStep
  /\ UNCHANGED <<orders, rule, allRecords, runs, lastTrigger, evalRef, evalLast, handlers>>

\* An event for order o reaches the rule engine while others are being processed:
\* the handler loads its own copy of the rule, asks canExecute and
\* evaluateConditions of it and, if both hold, starts the rule's actions.
HandleEvent(h, o) ==
  /\ handlers[h].pc = "idle"
  /\ runs < MaxRuns
  /\ IF canExecute(rule, o, clock) /\ evaluateConditions(rule.def, orders[o], clock)
     THEN /\ handlers' = [handlers EXCEPT ![h] = [pc |-> "acting", order |-> o, copy |-> rule]]
          /\ runs' = runs + 1
          /\ lastTrigger' = [NoTrigger EXCEPT !.kind = "started", !.order = o, !.at = clock]
     ELSE /\ lastTrigger' = [NoTrigger EXCEPT !.kind = "skipped", !.order = o, !.at = clock,
                               !.records = Len(rule.history),
                               !.failed = rule.stats.failedExecutions]
          /\ UNCHANGED <<handlers, runs>>
  /\ UNCHANGED <<clock, orders, rule, allRecords, evalRef, evalLast>>

\* The actions of handler h are through: recordExecution on the handler's copy,
\* whose findByIdAndUpdate writes the copy's new stats and history to the row.
HandlerRecords(h, success) ==
  /\ handlers[h].pc = "acting"
  /\ rule' = recordExecution(handlers[h].copy, handlers[h].order, success,
                             HistoryCap + Len(allRecords), clock)
  /\ allRecords' = Append(allRecords,
                          ExecutionRecord(handlers[h].order, clock, success,
                                          HistoryCap + Len(allRecords)))
  /\ handlers' = [handlers EXCEPT ![h] = HandlerIdle]
  /\ lastTrigger' = [NoTrigger EXCEPT !.kind = "recorded", !.order = handlers[h].order,
                                       !.at = clock, !.success = success]
  /\ UNCHANGED <<clock, orders, runs, evalRef, evalLast>>

(***************************************************************************)
(* TaggingService: applyTags, removeTags and the tag automation            *)
(***************************************************************************)
MaxTagCalls == 2

\* The two TaggingService implementations of the repository: "svc" on the
\* Supabase Order model, "doc" on the mongoose models with the rule loop.
TagImpls == {"svc", "doc"}

\* The tag lists a caller passes: one or two known tags.
TagInputs == {T \in SUBSET Tags : Cardinality(T) \in {1, 2}}

SeqToSet(s) == {s[i] : i \in DOMAIN s}

\* validateExclusiveCollections throws.
validateExclusiveThrows(currentTags, newTags) ==
  \E collection \in ExclusiveCollections :
    LET currentFromCollection == currentTags \cap collection.tags
        newFromCollection == newTags \cap collection.tags
    IN /\ newFromCollection # {}
       /\ (currentFromCollection # {} \/ Cardinality(newFromCollection) > 1)

\* entity.save() of the Supabase Order model: the update row has no tags column,
\* and the row that comes back, read without its order_tags, is assigned over
\* the entity.
savedEntityTags == {}

\* TaggingService.applyTags on the Supabase Order model: what it returns, and the
\* order_tags it leaves behind.
svcApplyTags(store, o, tagIds) ==
  LET entityTags == store[o].tags
      newTags == tagIds \ entityTags
  IN IF validateExclusiveThrows(entityTags, tagIds)
     THEN [threw |-> TRUE, returned |-> {}, store |-> store]
     ELSE [threw |-> FALSE,
           returned |-> IF newTags # {} THEN savedEntityTags ELSE entityTags,
           store |-> store]

svcRemoveTags(store, o, tagIds) ==
  [threw |-> FALSE, returned |-> savedEntityTags, store |-> store]

\* handleExclusiveTags: currentTags without the tags the new ones displace.
handleExclusiveTags(currentTags, newTags) ==
  currentTags \ UNION {IF newTags \cap collection.tags # {}
                          /\ currentTags \cap collection.tags # {}
                       THEN (currentTags \cap collection.tags) \ newTags
                       ELSE {} : collection \in ExclusiveCollections}

\* AutomationRule.find({enabled, 'trigger.event', $or [include $in, exclude $nin]})
\* .sort({priority: -1})
RECURSIVE sortByPriority(_)
sortByPriority(S) ==
  IF S = {} THEN <<>>
  ELSE LET first == CHOOSE r \in S : \A q \in S : Rules[q].priority <= Rules[r].priority
       IN <<first>> \o sortByPriority(S \ {first})

findTagRules(tags, eventType) ==
  sortByPriority({r \in RuleIds :
    /\ Rules[r].enabled
    /\ Rules[r].event = eventType
    /\ \/ Rules[r].conditions.tags.include \cap tags # {}
       \/ Rules[r].conditions.tags.exclude \cap tags = {}})

\* The rules whose order.save() in the rule loop rejects during one call.
FailingChoices == {{}, {"R1"}, {"R3"}}

\* The run of one doc call: the orders collection, the evaluations the rule
\* loop made, the action steps executeTagActions began, the notifications sent,
\* the rules whose save rejects, the rule executions under way (rule, the
\* order's tags, the event), whether an error is on its way up the call stack,
\* and whether the call has come back to a rule execution that is under way in
\* the same state, which it then repeats without end.
DocRun(store, failing) ==
  [store |-> store, evals |-> <<>>, acts |-> <<>>, notified |-> 0, failing |-> failing,
   stack |-> {}, threw |-> FALSE, looping |-> FALSE]

\* An action step of executeTagActions is reached.
step(run, actions, name) ==
  [run EXCEPT !.acts = Append(@, [actions |-> actions, step |-> name])]

\* F applied to the value of x, x evaluated once.
Once(F(_), x) == CHOOSE out \in {F(v) : v \in {x}} : TRUE

RECURSIVE docApplyTags(_, _, _), docRemoveTags(_, _, _),
          triggerTagAutomation(_, _, _, _, _, _), executeTagActions(_, _, _)

\* applyTags of the mongoose TaggingService.
docApplyTags(run, o, tagNames) ==
  LET currentTags == run.store[o].tags
      validTagNames == tagNames \cap Tags
      handled == handleExclusiveTags(currentTags, validTagNames)  \* result unused
      newTags == currentTags \cup validTagNames
      saved == [run EXCEPT !.store[o].tags = newTags]
  IN IF run.threw THEN run
     ELSE triggerTagAutomation(saved, o, newTags, validTagNames, "tag_applied",
                               findTagRules(validTagNames, "tag_applied"))

\* removeTags of the mongoose TaggingService.
docRemoveTags(run, o, tagNames) ==
  LET remainingTags == run.store[o].tags \ tagNames
      saved == [run EXCEPT !.store[o].tags = remainingTags]
  IN IF run.threw THEN run
     ELSE triggerTagAutomation(saved, o, remainingTags, tagNames, "tag_removed",
                               findTagRules(tagNames, "tag_removed"))

\* What the loop does once the actions of rule r are through: the log entry and
\* order.save(), which rejects for the rules in failing and then loses the
\* entry and the shipping override with it.
logExecution(acted, before, o, r, eventType, tags) ==
  IF acted.threw THEN acted
  ELSE IF r \in acted.failing
  THEN [acted EXCEPT !.threw = TRUE, !.store[o].shipping = before.store[o].shipping]
  ELSE [acted EXCEPT !.stack = before.stack,
                     !.store[o].automation =
                       Append(@, [ruleId |-> r, triggeredBy |-> eventType, tags |-> tags])]

\* The rule loop, on the entity the caller loaded (its tags are orderTags). No
\* try/catch: an error thrown by a rule's actions or by the save ends the loop.
triggerTagAutomation(run, o, orderTags, tags, eventType, rules) ==
  Once(LAMBDA now0 :
    IF rules = <<>> \/ now0.threw THEN now0
    ELSE LET r == Head(rules)
             result == evaluateTagConditions(orderTags, Rules[r].conditions)
             seen == [now0 EXCEPT !.evals = Append(@, [rule |-> r, order |-> o,
                                                       tags |-> orderTags,
                                                       total |-> now0.store[o].total,
                                                       result |-> result])]
             frame == <<r, o, orderTags, tags, eventType>>
         IN triggerTagAutomation(
              IF ~result THEN seen
              ELSE IF frame \in now0.stack
              THEN [seen EXCEPT !.looping = TRUE, !.threw = TRUE]
              ELSE Once(LAMBDA acted :
                          logExecution(acted, now0, o, r, eventType, tags),
                        executeTagActions([seen EXCEPT !.stack = @ \cup {frame}],
                                          o, Rules[r].actions)),
              o, orderTags, tags, eventType, Tail(rules)),
    run)

executeTagActions(run, o, actions) ==
  Once(LAMBDA prioritised :
         IF actions.emailTeam /\ ~prioritised.threw
         THEN [step(prioritised, actions, "notify") EXCEPT !.notified = @ + 1]
         ELSE prioritised,
    Once(LAMBDA shipped :
           IF actions.priority # "" /\ ~shipped.threw
           THEN docApplyTags(step(shipped, actions, "priority"), o, {actions.priority})
           ELSE shipped,
      Once(LAMBDA removed :
             IF actions.shipping /\ ~removed.threw
             THEN [step(removed, actions, "shipping") EXCEPT !.store[o].shipping = TRUE]
             ELSE removed,
        Once(LAMBDA added :
               IF Len(actions.removeTags) > 0 /\ ~added.threw
               THEN docRemoveTags(step(added, actions, "removeTags"), o,
                                  SeqToSet(actions.removeTags))
               ELSE added,
             IF Len(actions.addTags) > 0
             THEN docApplyTags(step(run, actions, "addTags"), o, SeqToSet(actions.addTags))
             ELSE run))))

NoTagCall == [kind |-> "none", order |-> "o1", requested |-> {}, before |-> {},
              threw |-> FALSE, returned |-> {}, evals |-> <<>>, notified |-> 0,
              failing |-> {}, acts |-> <<>>, looping |-> FALSE]

InitTag(impls) ==
  /\ tagImpl \in impls
  /\ tagCalls = 0
  /\ tagLast = NoTagCall

\* POST /apply of the tag routes, on the deployed implementation.
ApplyTags(o, tagIds, failing) ==
  /\ tagCalls < MaxTagCalls
  /\ tagImpl = "svc" => failing = {}
  /\ tagCalls' = tagCalls + 1
  /\ IF tagImpl = "svc"
     THEN LET res == svcApplyTags(orders, o, tagIds)
          IN /\ orders' = res.store
             /\ tagLast' = [NoTagCall EXCEPT !.kind = "apply", !.order = o,
                              !.requested = tagIds, !.before = orders[o].tags,
                              !.threw = res.threw, !.returned = res.returned]
     ELSE LET run == docApplyTags(DocRun(orders, failing), o, tagIds)
          IN /\ orders' = run.store
             /\ tagLast' = [NoTagCall EXCEPT !.kind = "apply", !.order = o,
                              !.requested = tagIds, !.before = orders[o].tags,
                              !.threw = run.threw,
                              !.returned = IF run.threw THEN {}
                                           ELSE orders[o].tags \cup tagIds,
                              !.evals = run.evals, !.notified = run.notified,
                              !.failing = failing, !.acts = run.acts,
                              !.looping = run.looping]
  /\ UNCHANGED tagImpl

\* POST /remove of the tag routes, on the deployed implementation.
RemoveTags(o, tagIds, failing) ==
  /\ tagCalls < MaxTagCalls
  /\ tagImpl = "svc" => failing = {}
  /\ tagCalls' = tagCalls + 1
  /\ IF tagImpl = "svc"
     THEN LET res == svcRemoveTags(orders, o, tagIds)
          IN /\ orders' = res.store
             /\ tagLast' = [NoTagCall EXCEPT !.kind = "remove", !.order = o,
                              !.requested = tagIds, !.before = orders[o].tags,
                              !.threw = res.threw, !.returned = res.returned]
     ELSE LET run == docRemoveTags(DocRun(orders, failing), o, tagIds)
          IN /\ orders' = run.store
             /\ tagLast' = [NoTagCall EXCEPT !.kind = "remove", !.order = o,
                              !.requested = tagIds, !.before = orders[o].tags,
                              !.threw = run.threw,
                              !.returned = IF run.threw THEN {}
                                           ELSE orders[o].tags \ tagIds,
                              !.evals = run.evals, !.notified = run.notified,
                              !.failing = failing, !.acts = run.acts,
                              !.looping = run.looping]
  /\ UNCHANGED tagImpl

(***************************************************************************)
(* The specifications                                                      *)
(***************************************************************************)
vars == <<now, cbVars, rlVars, retryVars, orders, ruleVars, tagVars, execVars, intVars>>

\* One fixed rule and orders table, for the specifications that leave them alone.
QuietRule == {NewRule("R1", NoLimits, <<>>)}
QuietOrders == {TableFor("R3")}
QuietManager == {[maxRetries |-> 3, serviceClient |-> TRUE]}

InitAll ==
  /\ now = 0
  /\ InitCB
  /\ InitRL
  /\ InitRetry
  /\ InitRule(QuietRule, QuietOrders)
  /\ InitTag({"svc"})
  /\ InitExec(QuietManager)
  /\ InitInt

\* The limits and the history: a rule whose conditions both orders meet (R3), or
\* one of them only (R1).
InitRuleSpec ==
  /\ now = 0
  /\ InitCB
  /\ InitRL
  /\ InitRetry
  /\ \E def \in {"R1", "R3"} :
       InitRule(RuleInits({def}, LimitConfigs), {TableFor(def)})
  /\ InitTag({"svc"})
  /\ InitExec(QuietManager)
  /\ InitInt

\* The evaluation: every rule definition on every orders table, no limits.
InitEvalSpec ==
  /\ now = 0
  /\ InitCB
  /\ InitRL
  /\ InitRetry
  /\ InitRule({NewRule(def, NoLimits, <<>>) : def \in RuleIds}, OrderTables)
  /\ InitTag({"svc"})
  /\ InitExec(QuietManager)
  /\ InitInt

\* The tagging: either implementation on either orders table.
InitTagSpec ==
  /\ now = 0
  /\ InitCB
  /\ InitRL
  /\ InitRetry
  /\ InitRule(QuietRule, OrderTables)
  /\ InitTag(TagImpls)
  /\ InitExec(QuietManager)
  /\ InitInt

exceptCB == <<rlVars, retryVars, orders, ruleVars, tagVars, execVars, intVars>>
exceptRL == <<cbVars, retryVars, orders, ruleVars, tagVars, execVars, intVars>>
exceptRetry == <<now, cbVars, rlVars, orders, ruleVars, tagVars, execVars, intVars>>
exceptRule == <<now, cbVars, rlVars, retryVars, tagVars, execVars, intVars>>
exceptExec == <<cbVars, rlVars, retryVars, orders, ruleVars, tagVars, intVars>>
exceptInt == <<now, cbVars, rlVars, retryVars, orders, ruleVars, tagVars, execVars>>
exceptTag == <<now, cbVars, rlVars, retryVars, ruleVars, execVars, intVars>>

NextCB ==
  \/ \E c \in CallIds : ExecuteCall(c) /\ UNCHANGED <<now, exceptCB>>
  \/ \E c \in CallIds : ExecuteSucceeds(c) /\ UNCHANGED <<now, exceptCB>>
  \/ \E c \in CallIds : ExecuteFails(c) /\ UNCHANGED <<now, exceptCB>>
  \/ TickCB /\ UNCHANGED exceptCB

SpecCB == InitAll /\ [][NextCB]_vars

NextRL ==
  \/ \E r \in ReqIds, k \in ClientIds : CheckRateLimit(r, k) /\ UNCHANGED <<now, exceptRL>>
  \/ \E r \in ReqIds : CheckRateLimitResume(r) /\ UNCHANGED <<now, exceptRL>>
  \/ TickRL /\ UNCHANGED exceptRL

SpecRL == InitAll /\ [][NextRL]_vars

NextRetry ==
  \/ \E m \in 0..MaxRetriesArg, b \in BaseDelays : RetryCall(m, b) /\ UNCHANGED exceptRetry
  \/ \E res \in FnResults, j \in Jitters : RetryAttempt(res, j) /\ UNCHANGED exceptRetry
  \/ RetryWake /\ UNCHANGED exceptRetry
  \/ RetryDone /\ UNCHANGED exceptRetry

SpecRetry == InitAll /\ [][NextRetry]_vars

NextRule ==
  \/ \E o \in OrderIds, success \in BOOLEAN, writeOk \in BOOLEAN :
       Trigger(o, success, writeOk) /\ UNCHANGED exceptRule
  \/ ClockTick /\ UNCHANGED exceptRule

SpecRule == InitRuleSpec /\ [][NextRule]_vars

\* The rule engine processing events concurrently.
NextHandlers ==
  \/ \E h \in HandlerIds, o \in OrderIds : HandleEvent(h, o) /\ UNCHANGED exceptRule
  \/ \E h \in HandlerIds, success \in BOOLEAN :
       HandlerRecords(h, success) /\ UNCHANGED exceptRule
  \/ ClockTick /\ UNCHANGED exceptRule

SpecHandlers == InitRuleSpec /\ [][NextHandlers]_vars

NextEval ==
  \/ \E o \in OrderIds, keep \in BOOLEAN : EvaluateConditions(o, keep) /\ UNCHANGED exceptRule
  \/ \E o \in OrderIds, success \in BOOLEAN : Trigger(o, success, TRUE) /\ UNCHANGED exceptRule
  \/ ClockTick /\ UNCHANGED exceptRule

SpecEval == InitEvalSpec /\ [][NextEval]_vars

\* executeWithResilience: the three manager configurations.
InitExecSpec ==
  /\ now = 0
  /\ InitCB
  /\ InitRL
  /\ InitRetry
  /\ InitRule(QuietRule, QuietOrders)
  /\ InitTag({"svc"})
  /\ InitExec(ManagerConfigs)
  /\ InitInt

NextExec ==
  \/ \E u \in BOOLEAN : ExecCall(u) /\ UNCHANGED <<now, exceptExec>>
  \/ \E res \in OpResults : ExecOperation(res) /\ UNCHANGED <<now, exceptExec>>
  \/ \E refreshOk \in BOOLEAN : ExecAutoFix(refreshOk) /\ UNCHANGED <<now, exceptExec>>
  \/ \E res \in OpResults : ExecRetryOperation(res) /\ UNCHANGED <<now, exceptExec>>
  \/ ExecWake /\ UNCHANGED <<now, exceptExec>>
  \/ ExecDone /\ UNCHANGED <<now, exceptExec>>
  \/ TickExec /\ UNCHANGED exceptExec

SpecExec == InitExecSpec /\ [][NextExec]_vars

\* A call in flight goes on: every await of the operation, of an auto-fix step
\* and of a backoff timer settles.
ExecProgress ==
  \/ \E res \in OpResults : ExecOperation(res) /\ UNCHANGED <<now, exceptExec>>
  \/ \E refreshOk \in BOOLEAN : ExecAutoFix(refreshOk) /\ UNCHANGED <<now, exceptExec>>
  \/ \E res \in OpResults : ExecRetryOperation(res) /\ UNCHANGED <<now, exceptExec>>
  \/ ExecWake /\ UNCHANGED <<now, exceptExec>>

SpecExecLive == InitExecSpec /\ [][NextExec]_vars /\ WF_vars(ExecProgress)

NextInt ==
  \E fresh \in BOOLEAN, success \in BOOLEAN :
    MakeRequest(fresh, success) /\ UNCHANGED exceptInt

SpecInt == InitAll /\ [][NextInt]_vars

NextTag ==
  \/ \E o \in OrderIds, tagIds \in TagInputs, failing \in FailingChoices :
       ApplyTags(o, tagIds, failing) /\ UNCHANGED exceptTag
  \/ \E o \in OrderIds, tagIds \in TagInputs, failing \in FailingChoices :
       RemoveTags(o, tagIds, failing) /\ UNCHANGED exceptTag

SpecTag == InitTagSpec /\ [][NextTag]_vars

(***************************************************************************)
(* C1: while the last Threshold (or more) completed call-throughs have all  *)
(* failed and now - lastFailureTime <= timeout, the breaker is OPEN, and no *)
(* execute() made in such a state gets as far as invoking fn.              *)
(***************************************************************************)
C1_OpenRejects ==
  /\ (streak >= breaker.threshold
        /\ now - ToNum(breaker.lastFailureTime) <= breaker.timeout)
     => breaker.state = "OPEN"
  /\ (cbLast.kind \in {"start", "reject"}
        /\ cbLast.streak >= breaker.threshold /\ cbLast.within)
     => cbLast.kind = "reject"

\* A call was thrown out exactly at the edge of the timeout, after Threshold failures.
C1_Witness ==
  /\ cbLast.kind = "reject"
  /\ cbLast.streak = breaker.threshold
  /\ cbLast.at - ToNum(breaker.lastFailureTime) = breaker.timeout

(***************************************************************************)
(* C2: a call made in state OPEN after the timeout is let through as the   *)
(* HALF_OPEN trial; its success ends CLOSED with failureCount 0, its       *)
(* failure ends OPEN with lastFailureTime the time of the failure.         *)
(***************************************************************************)
C2_HalfOpenTrial ==
  /\ (cbLast.kind \in {"start", "reject"} /\ cbLast.was = "OPEN" /\ ~cbLast.within)
     => (cbLast.kind = "start" /\ breaker.state = "HALF_OPEN")
  /\ (cbLast.kind = "ok" /\ cbLast.trial)
     => (breaker.state = "CLOSED" /\ breaker.failureCount = 0)
  /\ (cbLast.kind = "fail" /\ cbLast.trial)
     => (breaker.state = "OPEN" /\ breaker.lastFailureTime = cbLast.at)

(***************************************************************************)
(* C3: no 60-second rolling window holds more than requestsPerMinute calls *)
(* that checkRateLimit admitted, over all clients of the integration.      *)
(***************************************************************************)
AdmittedInWindow(from) ==
  Cardinality({j \in DOMAIN admitted :
                 from <= admitted[j] /\ admitted[j] < from + windowMs})

C3_WindowBound ==
  \A i \in DOMAIN admitted : AdmittedInWindow(admitted[i]) <= RequestsPerMinute

(***************************************************************************)
(* C4: with maxRetries >= 1, retryWithBackoff invokes fn at most           *)
(* maxRetries times; it returns the result of the first attempt that       *)
(* succeeds, and when all maxRetries attempts fail it throws the error of  *)
(* the last one.                                                           *)
(***************************************************************************)
AllFailed(s) == \A k \in DOMAIN s : ~s[k].ok

C4_BoundedAttempts ==
  retry.maxRetries >= 1 =>
    /\ Len(retry.attempts) <= retry.maxRetries
    /\ retry.pc = "returned" =>
         /\ retry.attempts # <<>>
         /\ retry.result = retry.attempts[Len(retry.attempts)]
         /\ retry.result.ok
         /\ AllFailed(SubSeq(retry.attempts, 1, Len(retry.attempts) - 1))
    /\ retry.pc = "threw" =>
         /\ Len(retry.attempts) = retry.maxRetries
         /\ AllFailed(retry.attempts)
         /\ retry.result = retry.attempts[Len(retry.attempts)]

\* All three attempts of a call with maxRetries = 3 failed, with different errors.
C4_Witness ==
  /\ retry.pc = "threw"
  /\ retry.maxRetries = 3
  /\ retry.attempts[2].v = "e1"
  /\ retry.result.v = "e2"

(***************************************************************************)
(* C8, as claimed: with maxPerDay = 1, once an execution has been recorded *)
(* today canExecute is false for every later trigger of the day, so at     *)
(* most one execution is recorded per day; a skipped trigger adds no       *)
(* ExecutionRecord and leaves failedExecutions alone.                      *)
(***************************************************************************)
RecordedToday(successOnly) ==
  {i \in DOMAIN allRecords :
     /\ allRecords[i].executedAt >= (clock \div MinutesPerDay) * MinutesPerDay
     /\ (successOnly => allRecords[i].success)}

SkipLeavesRule ==
  lastTrigger.kind = "skipped" =>
    /\ Len(rule.history) = lastTrigger.records
    /\ rule.stats.failedExecutions = lastTrigger.failed

SameOrderEvaluated ==
  evalRef.set /\ evalLast.set /\ evalLast.order = evalRef.order

C10_Deterministic ==
  SameOrderEvaluated => evalLast.result = evalRef.result

(***************************************************************************)
(* C10, amended: two evaluations of the rule's conditions against the same *)
(* unchanged order return the same boolean when the conditions have no     *)
(* timeRange or both calls read the same weekday and hour off the clock;   *)
(* an evaluation changes neither the order nor the rule.                   *)
(***************************************************************************)
SameWeekdayAndHour(t1, t2) ==
  /\ (t1 \div MinutesPerDay) % 7 = (t2 \div MinutesPerDay) % 7
  /\ (t1 % MinutesPerDay) \div 60 = (t2 % MinutesPerDay) \div 60

EvaluationStep == evalLast' # evalLast /\ runs' = runs

C10_DeterministicAtTime ==
  /\ [](SameOrderEvaluated
          /\ (Rules[rule.def].conditions.timeRange = NoTimeRange
                \/ SameWeekdayAndHour(evalRef.at, evalLast.at))
        => evalLast.result = evalRef.result)
  /\ [][EvaluationStep => UNCHANGED <<orders, rule>>]_vars

\* A rule without timeRange matched an order twice, twelve hours and one recorded
\* execution apart.
C10_Witness ==
  /\ SameOrderEvaluated
  /\ Rules[rule.def].conditions.timeRange = NoTimeRange
  /\ evalLast.at >= evalRef.at + 720
  /\ evalRef.result
  /\ Len(rule.history) > 0

(***************************************************************************)
(* C5: the rule that requires all of {vip} and an order value of at least  *)
(* 100 matches exactly the orders that carry vip and total 100 or more, in *)
(* every evaluation the rule loop makes of it for a tag event: the order   *)
(* {vip, express}/150 matches, the order {vip}/50 does not.                *)
(***************************************************************************)
C5_AndOfGroups ==
  \A i \in DOMAIN tagLast.evals :
    tagLast.evals[i].rule = "R1" =>
      tagLast.evals[i].result
        = ("vip" \in tagLast.evals[i].tags /\ tagLast.evals[i].total >= 100)

(***************************************************************************)
(* C6: applying one tag of an exclusive collection to an order that        *)
(* carries a different tag of that collection returns without an error,    *)
(* and the order then has the new tag and no longer the old one.           *)
(***************************************************************************)
C6_ExclusiveSwap ==
  \A collection \in ExclusiveCollections :
    \A added \in collection.tags : \A old \in collection.tags \ {added} :
      (tagLast.kind = "apply" /\ tagLast.requested = {added} /\ old \in tagLast.before)
        => /\ ~tagLast.threw
           /\ added \in orders[tagLast.order].tags
           /\ old \notin orders[tagLast.order].tags

(***************************************************************************)
(* C7: orders that start with at most one tag of each exclusive collection *)
(* keep at most one stored tag of each exclusive collection after every    *)
(* sequence of applyTags and removeTags calls.                             *)
(***************************************************************************)
C7_AtMostOnePerCollection ==
  \A o \in OrderIds, collection \in ExclusiveCollections :
    Cardinality(orders[o].tags \cap collection.tags) <= 1

(***************************************************************************)
(* C11: once the operation has failed with an error classified as          *)
(* DATA_VALIDATION, NOT_FOUND or PERMISSION_DENIED, the call has resolved  *)
(* with that failure: no backoff sleep follows and the operation is not    *)
(* invoked again.                                                          *)
(***************************************************************************)
C11_NonRetryableSurfaces ==
  exec.fatal => (exec.pc = "resolved" /\ ~exec.result.success)

(***************************************************************************)
(* C12: one executeWithResilience call invokes the credential refresh at   *)
(* most once, and once the refresh has failed, or the operation has failed *)
(* again after a refresh, the call has resolved with the failure.          *)
(***************************************************************************)
C12_SingleRefresh ==
  /\ exec.refreshes <= 1
  /\ exec.authSpent => (exec.pc = "resolved" /\ ~exec.result.success)

(***************************************************************************)
(* C13: no executeWithResilience call rejects: it resolves to a result     *)
(* object, also with the circuit OPEN and with useServiceRole set on a     *)
(* manager that has no service-role client.                                *)
(***************************************************************************)
C13_NeverRejects == exec.pc # "rejected"

(***************************************************************************)
(* C14: after a completed makeRequest the stored row shows the call:       *)
(* totalRequests one higher; after a success successfulRequests one        *)
(* higher, consecutiveErrors 0 and connected true; after a failure         *)
(* failedRequests and consecutiveErrors one higher and lastError set.      *)
(***************************************************************************)
C14_RowReflectsCall ==
  LET was == intLast.before
      is == integrationRow
  IN /\ intLast.kind # "none" => is.stats.totalRequests = was.stats.totalRequests + 1
     /\ intLast.kind = "ok" =>
          /\ is.stats.successfulRequests = was.stats.successfulRequests + 1
          /\ is.status.consecutiveErrors = 0
          /\ is.status.connected
     /\ intLast.kind = "failed" =>
          /\ is.stats.failedRequests = was.stats.failedRequests + 1
          /\ is.status.consecutiveErrors = was.status.consecutiveErrors + 1
          /\ is.status.lastError # ""

(***************************************************************************)
(* C15: once more than 10 makeRequest calls in a row have failed, the      *)
(* stored syncSettings.enabled is false, through the long-lived client and *)
(* through clients made per call alike.                                    *)
(***************************************************************************)
C15_DisabledPastCeiling ==
  failStreak > ErrorCeiling => ~integrationRow.sync_settings.enabled

(***************************************************************************)
(* C16: every rule the event selects is evaluated against the order, in    *)
(* priority order, also when the actions or the save of an earlier rule    *)
(* threw.                                                                  *)
(***************************************************************************)
C16_LaterRulesStillRun ==
  tagLast.kind \in {"apply", "remove"} /\ tagImpl = "doc" =>
    \A r \in SeqToSet(findTagRules(tagLast.requested,
                                   IF tagLast.kind = "apply" THEN "tag_applied"
                                   ELSE "tag_removed")) :
      \E i \in DOMAIN tagLast.evals : tagLast.evals[i].rule = r

(***************************************************************************)
(* C17: with concurrent execute() calls, every change of the breaker's     *)
(* state is CLOSED -> OPEN, OPEN -> HALF_OPEN, HALF_OPEN -> CLOSED or      *)
(* HALF_OPEN -> OPEN; in particular never OPEN -> CLOSED.                  *)
(***************************************************************************)
PermittedTransitions ==
  {<<"CLOSED", "OPEN">>, <<"OPEN", "HALF_OPEN">>,
   <<"HALF_OPEN", "CLOSED">>, <<"HALF_OPEN", "OPEN">>}

C17_PermittedTransitions ==
  [][breaker'.state # breaker.state
       => <<breaker.state, breaker'.state>> \in PermittedTransitions]_vars

(***************************************************************************)
(* C18: no execute() made while the breaker is HALF_OPEN (the trial not    *)
(* yet completed) is passed through to fn.                                 *)
(***************************************************************************)
C18_SingleTrial ==
  cbLast.kind = "start" => cbLast.was # "HALF_OPEN"

(***************************************************************************)
(* C19: calls held back by the rate limiter of one integration are         *)
(* admitted in arrival order: no held-back call is admitted while a call   *)
(* that requested admission earlier is still held back.                    *)
(***************************************************************************)
C19_FifoAdmission ==
  [][\A r \in ReqIds :
       (requests[r].st = "waiting" /\ requests'[r].st = "idle")
       => \A q \in ReqIds : requests[q].st = "waiting"
                              => requests[q].at >= requests[r].at]_vars

(***************************************************************************)
(* C20: for a rule with limits.maxPerOrder = k, the executions recorded as *)
(* successful for one order never number more than k, whatever has been    *)
(* recorded for other orders in between.                                   *)
(***************************************************************************)
SucceededFor(o) ==
  Cardinality({i \in DOMAIN allRecords :
                 allRecords[i].orderId = o /\ allRecords[i].success})

C20_PerOrderLimit ==
  rule.limits.maxPerOrder # 0 =>
    \A o \in OrderIds : SucceededFor(o) <= rule.limits.maxPerOrder

(***************************************************************************)
(* C21: for a rule with limits.maxExecutions = M, with events processed    *)
(* concurrently, each on its own loaded copy of the rule,                  *)
(* stats.totalExecutions never exceeds M and the rule's actions are run at *)
(* most M times.                                                           *)
(***************************************************************************)
ActionsRun ==
  Len(allRecords) + Cardinality({h \in HandlerIds : handlers[h].pc = "acting"})

C21_MaxExecutions ==
  rule.limits.maxExecutions # 0 =>
    /\ rule.stats.totalExecutions <= rule.limits.maxExecutions
    /\ ActionsRun <= rule.limits.maxExecutions

(***************************************************************************)
(* C22: the auto-fix of a RATE_LIMITED error has waited the retry-after    *)
(* the error carries, in seconds, when the operation is retried, and the   *)
(* default of 60 seconds only when the error carries none.                 *)
(***************************************************************************)
C22_RetryAfterHonoured ==
  (exec.pc = "opAfterFix" /\ classifyError(exec.error) = "RATE_LIMITED") =>
    exec.waited = (IF exec.retryAfter # 0 THEN exec.retryAfter ELSE DefaultRetryAfter)

(***************************************************************************)
(* C24: within one retry cycle the delay slept after failed attempt i+1 is *)
(* strictly greater than the delay slept after failed attempt i, for every *)
(* baseDelay and every jitter in [0, 1000) ms.                             *)
(***************************************************************************)
DelaysIncrease ==
  \A k \in 1..(Len(retry.delays) - 1) : retry.delays[k] < retry.delays[k + 1]

C24_StrictlyIncreasing == DelaysIncrease

(***************************************************************************)
(* C24, amended: for a baseDelay of at least 1000 ms (the default is 1000) *)
(* and every jitter in [0, 1000) ms, the delay slept after failed attempt  *)
(* i+1 is strictly greater than the delay slept after failed attempt i.    *)
(***************************************************************************)
C24_IncreasingFromDefault ==
  retry.baseDelay >= 1000 =>
    \A k \in 1..(Len(retry.delays) - 1) : retry.delays[k] < retry.delays[k + 1]

\* A cycle with the default baseDelay that slept twice, the first time with
\* the largest jitter and the second time with none.
C24_Witness ==
  /\ retry.baseDelay = 1000
  /\ Len(retry.delays) >= 2
  /\ retry.delays[1] = 1999
  /\ retry.delays[2] = 2000

(***************************************************************************)
(* C25: every executeWithResilience call eventually resolves, given that   *)
(* each invocation of the operation and each auto-fix step returns, and    *)
(* its retry cycle takes at most maxRetries attempts.                      *)
(***************************************************************************)
C25_EventuallyResolves ==
  /\ [](exec.pc \notin {"idle", "rejected", "resolved"} => exec.i < manager.maxRetries)
  /\ \A n \in 1..MaxExecCalls :
        (execCalls = n /\ exec.pc # "idle") ~> (execCalls = n /\ exec.pc = "resolved")

(***************************************************************************)
(* C23: within one rule's action list a failing action does not keep the   *)
(* remaining actions from being attempted: every action list that          *)
(* executeTagActions began had each of its configured steps attempted.     *)
(***************************************************************************)
ConfiguredSteps(actions) ==
  (IF Len(actions.addTags) > 0 THEN {"addTags"} ELSE {})
    \cup (IF Len(actions.removeTags) > 0 THEN {"removeTags"} ELSE {})
    \cup (IF actions.shipping THEN {"shipping"} ELSE {})
    \cup (IF actions.priority # "" THEN {"priority"} ELSE {})
    \cup (IF actions.emailTeam THEN {"notify"} ELSE {})

StepsTaken(actions, name) ==
  Cardinality({i \in DOMAIN tagLast.acts :
                 tagLast.acts[i].actions = actions /\ tagLast.acts[i].step = name})

C23_RemainingActionsRun ==
  (tagImpl = "doc" /\ ~tagLast.looping) =>
    \A r \in RuleIds :
      \A s1, s2 \in ConfiguredSteps(Rules[r].actions) :
        StepsTaken(Rules[r].actions, s1) = StepsTaken(Rules[r].actions, s2)

(***************************************************************************)
(* C26: processing one tag event terminates: a call of applyTags or        *)
(* removeTags never comes back to a rule execution that is already under   *)
(* way for the same order, tags and event, which it would repeat for ever. *)
(***************************************************************************)
C26_TagEventTerminates == ~tagLast.looping

(***************************************************************************)
(* C27: in every state of a CircuitBreaker, also with concurrent calls, a  *)
(* breaker that is OPEN or HALF_OPEN has failureCount >= threshold and a   *)
(* lastFailureTime; a breaker with failureCount < threshold is CLOSED.     *)
(***************************************************************************)
C27_OpenMeansThreshold ==
  /\ breaker.state \in {"OPEN", "HALF_OPEN"}
       => (breaker.failureCount >= breaker.threshold /\ breaker.lastFailureTime # NULL)
  /\ breaker.failureCount < breaker.threshold => breaker.state = "CLOSED"

\* The breaker is HALF_OPEN with the trial and another call in flight.
C27_Witness ==
  /\ breaker.state = "HALF_OPEN"
  /\ Cardinality({c \in CallIds : calls[c] = "running"}) >= 2

(***************************************************************************)
(* C28: an execute() call that is rejected because the breaker is OPEN and *)
(* the timeout has not elapsed leaves state, failureCount and              *)
(* lastFailureTime as they were.                                           *)
(***************************************************************************)
C28_RejectLeavesBreaker ==
  [][cbLast'.kind = "reject"
       => /\ breaker'.state = breaker.state
          /\ breaker'.failureCount = breaker.failureCount
          /\ breaker'.lastFailureTime = breaker.lastFailureTime]_vars

\* A call was rejected some time after the failure that opened the breaker.
C28_Witness ==
  /\ cbLast.kind = "reject"
  /\ breaker.state = "OPEN"
  /\ cbLast.at > breaker.lastFailureTime

(***************************************************************************)
(* C29: whenever no executeWithResilience call is in flight,               *)
(* metrics.totalRequests = metrics.successfulRequests +                    *)
(* metrics.failedRequests.                                                 *)
(***************************************************************************)
C29_MetricsAddUp ==
  exec.pc = "idle" =>
    metrics.totalRequests = metrics.successfulRequests + metrics.failedRequests

====
